---- MODULE Spec2Model ----
(***************************************************************************)
(* crew-pay: the LangGraph workflow of CrewPayWorkflow and its four agents *)
(* (pay validation, claims processing, compliance, notification).          *)
(*                                                                         *)
(* Money is in cents (Decimal with two places), hours in whole hours,      *)
(* dates in days.  An Optional[...] model object that is None is NoneRec,  *)
(* an Optional[str] that is None is the string "None".                     *)
(***************************************************************************)
EXTENDS Integers, Sequences, FiniteSets, TLC

VARIABLES
    config,     \* CrewPayWorkflow.config   (WorkflowConfig)
    settings,   \* CrewPayWorkflow.settings (Settings, the process-wide object)
    pc,         \* position of the invocation: "idle", a node name, "end",
                \* "except", "returned", "raised"
    kind,       \* "pay_validation" | "claim_processing" | "none": the operation invoked
    arg,        \* the pay_record / claim the operation was invoked with
    state,      \* the run's WorkflowState
    visited,    \* the nodes the graph has entered, in order
    llm_calls,  \* the advisory calls made, in order: the calling agent and
                \* whether the call raised
    exc,        \* str(e) of the exception that escaped a node, or "None"
    result,     \* the WorkflowResult handed to the caller, or NoneRec
    checked,    \* the pay record the rule checks are run on by themselves
    clock,      \* the last reading of datetime.now()
    rule_runs,  \* the ValidationResults of each run of the four rule checks
    invocations \* the invocations in flight on one CrewPayWorkflow, each
                \* with its own WorkflowState

\* The variables of one invocation followed from its call to its result.
singleRunVars == <<pc, kind, arg, state, visited, llm_calls, exc, result>>

\* The variables of the rule checks run by themselves.
ruleCheckVars == <<checked, clock, rule_runs>>

vars == <<config, settings, singleRunVars, ruleCheckVars, invocations>>

NoneRec == [is_none |-> TRUE]

IsNone(x) == x = NoneRec

\* ------------------------------------------------------------------ bounds

\* The largest number of supporting documents of a claim.
MaxDocs == 1

\* The number of times the rule checks are run on one record.
MaxRuleRuns == 2

\* ------------------------------------------------------- program constants

max_regular_hours_per_week == 40
max_overtime_hours_per_week == 20
MinimumWage == 1500
AmountThreshold == 1000000
Tolerance == 1
MinDescriptionLen == 10

\* ------------------------------------------------------------------ inputs

Abs(x) == IF x < 0 THEN 0 - x ELSE x

\* Twice the expected gross pay in cents: regular_hours * rate +
\* overtime_hours * (rate * 1.5), doubled so that the 1.5 stays exact.
ExpectedGross2(regular_hours, overtime_hours, hourly_rate) ==
    2 * regular_hours * hourly_rate + 3 * overtime_hours * hourly_rate

\* Crew members: hourly_rate > 0 is all CrewMember requires, so a name or an
\* employee id may be empty and the rate may be under the minimum wage.
CrewMembers ==
    { [name |-> n, employee_id |-> e, hourly_rate |-> 7550, email |-> "None"] :
        n \in {"", "Ann"}, e \in {"", "E1"} }
    \cup { [name |-> "Ann", employee_id |-> "E1", hourly_rate |-> 1000,
            email |-> "None"] }

\* The pay records PayRecord's field constraints and its validate_pay_period
\* admit: hours, pay and deductions >= 0, hourly_rate > 0, end >= start.
\* Gross pay is zero, the expected amount, or two cents above it; net pay is
\* gross - deductions, or two cents above that.
PayRecordsOf(cm, pe, ot) ==
    LET expected == ExpectedGross2(80, ot, cm.hourly_rate) \div 2
    IN  { [id |-> "pay-1", crew_member |-> cm,
           pay_period_start |-> 0, pay_period_end |-> pe,
           pay_period_type |-> "bi_weekly",
           regular_hours |-> 80, overtime_hours |-> ot,
           gross_pay |-> gn[1], deductions |-> d,
           net_pay |-> (IF gn[1] >= d THEN gn[1] - d ELSE 0) + gn[2]] :
            gn \in {<<0, 0>>, <<expected, 0>>, <<expected, 2>>, <<expected + 2, 0>>},
            d \in {0, expected \div 5} }

\* PayRecord.validate_pay_period, the field validator of pay_period_end:
\* what constructing a PayRecord with these dates does.
PayRecord_validate_pay_period(v, pay_period_start) ==
    IF v < pay_period_start THEN "ValueError" ELSE "constructed"

\* The period ends tried against a start of day 0: before it, on it, a
\* bi-weekly period later, and a period too long for its type.
PeriodEnds == {-1, 0, 14, 20}

ConstructiblePeriodEnds ==
    { pe \in PeriodEnds : PayRecord_validate_pay_period(pe, 0) = "constructed" }

\* A complete crew member at the hourly rate of the schemas' examples, 75.50.
ExampleMember ==
    [name |-> "Ann", employee_id |-> "E1", hourly_rate |-> 7550, email |-> "None"]

\* Records whose total of 80 + 28 = 108 hours is exactly 90% of the 120
\* hours two weeks allow.
BoundaryHoursRecords == PayRecordsOf(ExampleMember, 14, 28)

\* The records of the pay-calculation example: 80 regular and 5 overtime
\* hours at 75.50, deductions of 1283.00, a gross pay of 6606.25 (the
\* expected amount), of 6606.26 (one cent above it) or of 6415.00, and
\* net_pay = gross_pay - deductions.
ExampleRecords ==
    { [id |-> "pay-1", crew_member |-> ExampleMember,
       pay_period_start |-> 0, pay_period_end |-> 14,
       pay_period_type |-> "bi_weekly",
       regular_hours |-> 80, overtime_hours |-> 5,
       gross_pay |-> g, deductions |-> 128300, net_pay |-> g - 128300] :
        g \in {660625, 660626, 641500} }

\* A record without hours and without pay: its pay calculation is
\* consistent (0 = 0), only the completeness check objects to it.
ZeroRecord ==
    [id |-> "pay-1", crew_member |-> ExampleMember,
     pay_period_start |-> 0, pay_period_end |-> 14,
     pay_period_type |-> "bi_weekly",
     regular_hours |-> 0, overtime_hours |-> 0,
     gross_pay |-> 0, deductions |-> 0, net_pay |-> 0]

PayRecords ==
    UNION { PayRecordsOf(cm, pe, ot) :
              cm \in CrewMembers, pe \in ConstructiblePeriodEnds, ot \in {0, 30, 45} }
    \cup BoundaryHoursRecords \cup ExampleRecords \cup {ZeroRecord}

Docs == {"timesheet.xlsx", "receipt.pdf"}

DocLists == UNION { [1..k -> Docs] : k \in 0..MaxDocs }

\* The claims Claim's field constraints admit: amount > 0.  A description is
\* kept as the length of description.strip().
Claims ==
    { [id |-> "claim-1",
       crew_member |-> [name |-> "Ann", employee_id |-> "E1",
                        hourly_rate |-> 7550, email |-> "None"],
       claim_type |-> t, amount |-> a, description_len |-> dl,
       supporting_documents |-> docs] :
        t \in {"overtime", "reimbursement", "bonus", "adjustment"},
        a \in {50000, 100000, 1500000},
        dl \in {5, 30},
        docs \in DocLists }

\* What the advisory call of each agent can do: return a text that the
\* agent's keyword match classifies, or raise.  LLMError is str(e) of the
\* exception it raises.
LLMError == "advisory call failed"

\* An f-string that ends in {str(e)}: the fixed text, then the error text.
WithError(text, e) == text \o e

\* One self.llm.ainvoke(...) of an agent.
LLMCall(agent, outcome) == [agent |-> agent, raised |-> outcome = "raises"]

PayLLMOutcomes == {"passed", "warning", "failed", "raises"}
ClaimLLMOutcomes == {"approved", "rejected", "under_review", "raises"}
ComplianceLLMOutcomes == {"compliant", "non_compliant", "raises"}

\* ------------------------------------------------------ PayValidationAgent

ValidationResult(check_name, status, message) ==
    [check_name |-> check_name, status |-> status, message |-> message]

validate_hours(pay_record) ==
    LET total_hours == pay_record.regular_hours + pay_record.overtime_hours
        max_total_hours ==
            (max_regular_hours_per_week + max_overtime_hours_per_week) * 2
    IN  IF total_hours > max_total_hours
        THEN ValidationResult("hours_limit_check", "failed", "exceeds maximum allowed")
        ELSE IF 10 * total_hours > 9 * max_total_hours
        THEN ValidationResult("hours_limit_check", "warning", "approaching maximum limit")
        ELSE ValidationResult("hours_limit_check", "passed", "within acceptable limits")

\* Mutant: overtime hours are paid at the plain hourly rate.
validate_pay_calculation_NoOvertimePremium(pay_record) ==
    LET expected_gross ==
            (pay_record.regular_hours + pay_record.overtime_hours)
                * pay_record.crew_member.hourly_rate
        expected_net == pay_record.gross_pay - pay_record.deductions
    IN  IF Abs(pay_record.gross_pay - expected_gross) > Tolerance
        THEN ValidationResult("pay_calculation_check", "failed", "Pay calculation mismatch")
        ELSE IF Abs(pay_record.net_pay - expected_net) > Tolerance
        THEN ValidationResult("pay_calculation_check", "failed", "Net pay calculation mismatch")
        ELSE ValidationResult("pay_calculation_check", "passed", "Pay calculations are accurate")

\* The comparisons with the tolerance are made on doubled cents.
validate_pay_calculation(pay_record) ==
    LET expected_gross2 ==
            ExpectedGross2(pay_record.regular_hours, pay_record.overtime_hours,
                           pay_record.crew_member.hourly_rate)
        difference2 == Abs(2 * pay_record.gross_pay - expected_gross2)
        expected_net == pay_record.gross_pay - pay_record.deductions
    IN  IF difference2 > 2 * Tolerance
        THEN ValidationResult("pay_calculation_check", "failed", "Pay calculation mismatch")
        ELSE IF Abs(pay_record.net_pay - expected_net) > Tolerance
        THEN ValidationResult("pay_calculation_check", "failed", "Net pay calculation mismatch")
        ELSE ValidationResult("pay_calculation_check", "passed", "Pay calculations are accurate")

expected_days(pay_period_type) ==
    CASE pay_period_type = "weekly" -> 7
      [] pay_period_type = "bi_weekly" -> 14
      [] pay_period_type = "semi_monthly" -> 15
      [] pay_period_type = "monthly" -> 30
      [] OTHER -> 14

validate_pay_period(pay_record) ==
    LET days_diff == pay_record.pay_period_end - pay_record.pay_period_start
    IN  IF pay_record.pay_period_end <= pay_record.pay_period_start
        THEN ValidationResult("pay_period_check", "failed", "end date must be after start date")
        ELSE IF Abs(days_diff - expected_days(pay_record.pay_period_type)) > 2
        THEN ValidationResult("pay_period_check", "warning", "length doesn't match type")
        ELSE ValidationResult("pay_period_check", "passed", "Pay period is valid")

\* Mutant: the check forgets the crew member's name.
validate_data_completeness_NoName(pay_record) ==
    IF \/ pay_record.crew_member.employee_id = ""
       \/ pay_record.regular_hours < 0
       \/ pay_record.gross_pay <= 0
    THEN ValidationResult("data_completeness_check", "failed",
                          "Missing or invalid required fields")
    ELSE ValidationResult("data_completeness_check", "passed",
                          "All required data is present")

\* Mutant: the check forgets gross_pay.
validate_data_completeness_NoGrossPay(pay_record) ==
    IF \/ pay_record.crew_member.name = ""
       \/ pay_record.crew_member.employee_id = ""
       \/ pay_record.regular_hours < 0
    THEN ValidationResult("data_completeness_check", "failed",
                          "Missing or invalid required fields")
    ELSE ValidationResult("data_completeness_check", "passed",
                          "All required data is present")

validate_data_completeness(pay_record) ==
    LET missing_fields ==
            (IF pay_record.crew_member.name = "" THEN {"crew_member.name"} ELSE {})
            \cup (IF pay_record.crew_member.employee_id = ""
                  THEN {"crew_member.employee_id"} ELSE {})
            \cup (IF pay_record.regular_hours < 0 THEN {"regular_hours (invalid)"} ELSE {})
            \cup (IF pay_record.gross_pay <= 0 THEN {"gross_pay (invalid)"} ELSE {})
    IN  IF missing_fields # {}
        THEN ValidationResult("data_completeness_check", "failed",
                              "Missing or invalid required fields")
        ELSE ValidationResult("data_completeness_check", "passed",
                              "All required data is present")

\* Mutant: an advisory failure fails the check.
validate_with_llm_FailOnError(pay_record, outcome) ==
    IF outcome = "raises"
    THEN ValidationResult("llm_semantic_check", "failed",
                          WithError("LLM validation skipped due to error: ", LLMError))
    ELSE ValidationResult("llm_semantic_check", outcome, "LLM validation")

\* outcome is what the advisory call did: the class its text falls in under
\* the keyword match, or "raises".
validate_with_llm(pay_record, outcome) ==
    IF outcome = "raises"
    THEN ValidationResult("llm_semantic_check", "warning",
                          WithError("LLM validation skipped due to error: ", LLMError))
    ELSE ValidationResult("llm_semantic_check", outcome, "LLM validation")

\* Mutant: a warning is looked for before a failure.
determine_overall_status_WarningFirst(results) ==
    IF \E i \in DOMAIN results : results[i].status = "warning" THEN "warning"
    ELSE IF \E i \in DOMAIN results : results[i].status = "failed" THEN "failed"
    ELSE IF \E i \in DOMAIN results : results[i].status = "requires_review"
    THEN "requires_review"
    ELSE "passed"

determine_overall_status(results) ==
    IF \E i \in DOMAIN results : results[i].status = "failed" THEN "failed"
    ELSE IF \E i \in DOMAIN results : results[i].status = "requires_review"
    THEN "requires_review"
    ELSE IF \E i \in DOMAIN results : results[i].status = "warning" THEN "warning"
    ELSE "passed"

\* An AgentOutput; raised is the message of the exception process() raised
\* instead of returning, or "None".
AgentOutput(message, res, next_agent, should_continue) ==
    [raised |-> "None", messages |-> <<message>>, result |-> res,
     next_agent |-> next_agent, should_continue |-> should_continue]

Raised(message) ==
    [raised |-> message, messages |-> <<>>, result |-> NoneRec,
     next_agent |-> "None", should_continue |-> FALSE]

\* Mutant: only a passed verdict names the compliance agent.
PayValidationAgent_process_PassedOnly(agent_input, outcome) ==
    IF IsNone(agent_input.pay_record)
    THEN Raised("No pay record provided for validation")
    ELSE
    LET pay_record == agent_input.pay_record
        validation_results ==
            << validate_hours(pay_record),
               validate_pay_calculation(pay_record),
               validate_pay_period(pay_record),
               validate_data_completeness(pay_record),
               validate_with_llm(pay_record, outcome) >>
        overall_status == determine_overall_status(validation_results)
        validation_report ==
            [pay_record_id |-> pay_record.id, overall_status |-> overall_status,
             validation_results |-> validation_results]
    IN  AgentOutput("PayValidationAgent",
                    [validation_report |-> validation_report,
                     overall_status |-> overall_status],
                    IF overall_status = "passed" THEN "ComplianceAgent" ELSE "None",
                    overall_status # "failed")

PayValidationAgent_process(agent_input, outcome) ==
    IF IsNone(agent_input.pay_record)
    THEN Raised("No pay record provided for validation")
    ELSE
    LET pay_record == agent_input.pay_record
        validation_results ==
            << validate_hours(pay_record),
               validate_pay_calculation(pay_record),
               validate_pay_period(pay_record),
               validate_data_completeness(pay_record),
               validate_with_llm(pay_record, outcome) >>
        overall_status == determine_overall_status(validation_results)
        validation_report ==
            [pay_record_id |-> pay_record.id, overall_status |-> overall_status,
             validation_results |-> validation_results]
    IN  AgentOutput("PayValidationAgent",
                    [validation_report |-> validation_report,
                     overall_status |-> overall_status],
                    IF overall_status # "failed" THEN "ComplianceAgent" ELSE "None",
                    overall_status # "failed")

\* --------------------------------------------------- ClaimsProcessingAgent

\* The documents whose lower-cased name contains one of the keywords
\* timesheet, time, hours, schedule.
TimesheetLike == {"timesheet.xlsx"}

validate_overtime_claim(claim) ==
    LET docs == claim.supporting_documents
        has_required_doc == \E i \in DOMAIN docs : docs[i] \in TimesheetLike
    IN  has_required_doc \/ Len(docs) > 0

\* Mutant: the description's length is not checked.
validate_claim_NoDescription(claim) ==
    IF claim.amount <= 0
    THEN [is_valid |-> FALSE, message |-> "Claim amount must be greater than zero"]
    ELSE IF claim.claim_type = "overtime" /\ ~validate_overtime_claim(claim)
    THEN [is_valid |-> FALSE,
          message |-> "Overtime claim validation failed - missing timesheet documentation"]
    ELSE IF claim.claim_type = "reimbursement" /\ Len(claim.supporting_documents) = 0
    THEN [is_valid |-> FALSE,
          message |-> "Reimbursement claims require supporting documents"]
    ELSE [is_valid |-> TRUE, message |-> "Claim validation passed"]

validate_claim(claim) ==
    IF claim.description_len < MinDescriptionLen
    THEN [is_valid |-> FALSE, message |-> "Claim description is too short or missing"]
    ELSE IF claim.amount <= 0
    THEN [is_valid |-> FALSE, message |-> "Claim amount must be greater than zero"]
    ELSE IF claim.claim_type = "overtime" /\ ~validate_overtime_claim(claim)
    THEN [is_valid |-> FALSE,
          message |-> "Overtime claim validation failed - missing timesheet documentation"]
    ELSE IF claim.claim_type = "reimbursement" /\ Len(claim.supporting_documents) = 0
    THEN [is_valid |-> FALSE,
          message |-> "Reimbursement claims require supporting documents"]
    ELSE [is_valid |-> TRUE, message |-> "Claim validation passed"]

ClaimDecision(claim, decision, approved_amount, rationale) ==
    [claim_id |-> claim.id, decision |-> decision,
     approved_amount |-> approved_amount, rationale |-> rationale]

\* Mutant: the auto-approval forgets the amount.
auto_approve_claim_ZeroAmount(claim) ==
    ClaimDecision(claim, "approved", 0, "Auto-approved")

auto_approve_claim(claim) ==
    ClaimDecision(claim, "approved", claim.amount, "Auto-approved")

\* Mutant: an advisory failure rejects the claim.
evaluate_claim_with_llm_RejectOnError(claim, outcome) ==
    CASE outcome = "approved" ->
            ClaimDecision(claim, "approved", claim.amount,
                          "Approved based on LLM evaluation")
      [] outcome = "under_review" ->
            ClaimDecision(claim, "under_review", 0, "Requires additional review")
      [] OTHER ->
            ClaimDecision(claim, "rejected", 0, "Rejected based on LLM evaluation")

evaluate_claim_with_llm(claim, outcome) ==
    CASE outcome = "approved" ->
            ClaimDecision(claim, "approved", claim.amount,
                          "Approved based on LLM evaluation")
      [] outcome = "rejected" ->
            ClaimDecision(claim, "rejected", 0, "Rejected based on LLM evaluation")
      [] outcome = "under_review" ->
            ClaimDecision(claim, "under_review", 0, "Requires additional review")
      [] OTHER ->
            ClaimDecision(claim, "under_review", 0,
                          WithError("Automatic evaluation unavailable. Manual review required. Error: ",
                                    LLMError))

\* Mutant: the settings flag is not consulted.
determine_next_agent_NoSettings(decision, stg) ==
    IF decision.decision = "approved" THEN "ComplianceAgent" ELSE "NotificationAgent"

determine_next_agent(decision, stg) ==
    IF decision.decision = "approved"
    THEN IF stg.enable_compliance_checks THEN "ComplianceAgent" ELSE "NotificationAgent"
    ELSE "NotificationAgent"

\* Mutant: a claim of exactly the threshold is not auto-approved.
AutoApproves_Strict(claim, stg) ==
    /\ stg.auto_approve_claim_threshold # 0
    /\ claim.amount < stg.auto_approve_claim_threshold

\* A threshold of 0 stands for both None and 0.0: the code tests its truth.
AutoApproves(claim, stg) ==
    /\ stg.auto_approve_claim_threshold # 0
    /\ claim.amount <= stg.auto_approve_claim_threshold

\* Whether process() makes its advisory call on this input.
ClaimsAgentCallsLLM(agent_input, stg) ==
    /\ ~IsNone(agent_input.claim)
    /\ validate_claim(agent_input.claim).is_valid
    /\ ~AutoApproves(agent_input.claim, stg)

ClaimsProcessingAgent_process(agent_input, stg, outcome) ==
    IF IsNone(agent_input.claim)
    THEN Raised("No claim provided for processing")
    ELSE
    LET claim == agent_input.claim
        validation_result == validate_claim(claim)
    IN  IF ~validation_result.is_valid
        THEN LET decision ==
                     ClaimDecision(claim, "rejected", 0, validation_result.message)
             IN  AgentOutput("ClaimsProcessingAgent",
                             [claim_decision |-> decision, claim_id |-> claim.id,
                              decision |-> "rejected"],
                             "NotificationAgent", TRUE)
        ELSE LET decision ==
                     IF AutoApproves(claim, stg)
                     THEN auto_approve_claim(claim)
                     ELSE evaluate_claim_with_llm(claim, outcome)
             IN  AgentOutput("ClaimsProcessingAgent",
                             [claim_decision |-> decision, claim_id |-> claim.id,
                              decision |-> decision.decision,
                              approved_amount |-> decision.approved_amount],
                             determine_next_agent(decision, stg), TRUE)

\* --------------------------------------------------------- ComplianceAgent

Check(check_name, passed, warning) ==
    [check_name |-> check_name, passed |-> passed, warning |-> warning]

\* The advisory check also carries its message.
CheckWithMessage(check_name, passed, warning, message) ==
    [check_name |-> check_name, passed |-> passed, warning |-> warning,
     message |-> message]

\* The tax-withholding branch divides deductions by gross_pay.
DividesByZero(pay_record) ==
    ~(pay_record.deductions <= 0 /\ pay_record.gross_pay > 0)
    /\ pay_record.gross_pay = 0

check_pay_record_compliance(pay_record) ==
    << Check("minimum_wage_check",
             ~(pay_record.crew_member.hourly_rate < MinimumWage), FALSE) >>
    \o (IF pay_record.overtime_hours > 0
        THEN << Check("overtime_rate_check", TRUE, FALSE) >>
        ELSE << >>)
    \o (IF pay_record.deductions <= 0 /\ pay_record.gross_pay > 0
        THEN << Check("tax_withholding_check", FALSE, TRUE) >>
        ELSE IF 100 * pay_record.deductions < 5 * pay_record.gross_pay
                \/ 100 * pay_record.deductions > 50 * pay_record.gross_pay
        THEN << Check("tax_withholding_check", TRUE, TRUE) >>
        ELSE << Check("tax_withholding_check", TRUE, FALSE) >>)

check_claim_compliance(claim) ==
    << IF claim.claim_type \in {"reimbursement", "bonus"}
          /\ Len(claim.supporting_documents) = 0
       THEN Check("documentation_requirement", FALSE, FALSE)
       ELSE Check("documentation_requirement", TRUE, FALSE),
       IF claim.amount > AmountThreshold
       THEN Check("amount_threshold_check", TRUE, TRUE)
       ELSE Check("amount_threshold_check", TRUE, FALSE) >>

check_general_compliance(agent_input, outcome) ==
    CASE outcome = "compliant" ->
            CheckWithMessage("llm_general_compliance", TRUE, FALSE, "LLM compliance review")
      [] outcome = "non_compliant" ->
            CheckWithMessage("llm_general_compliance", FALSE, TRUE, "LLM compliance review")
      [] OTHER ->
            CheckWithMessage("llm_general_compliance", TRUE, TRUE,
                             WithError("LLM compliance check skipped: ", LLMError))

ComplianceAgent_process(agent_input, outcome) ==
    IF ~IsNone(agent_input.pay_record) /\ DividesByZero(agent_input.pay_record)
    THEN Raised("division by zero")
    ELSE
    LET compliance_checks ==
            (IF ~IsNone(agent_input.pay_record)
             THEN check_pay_record_compliance(agent_input.pay_record) ELSE << >>)
            \o (IF ~IsNone(agent_input.claim)
                THEN check_claim_compliance(agent_input.claim) ELSE << >>)
            \o << check_general_compliance(agent_input, outcome) >>
        all_passed == \A i \in DOMAIN compliance_checks : compliance_checks[i].passed
        has_warnings == \E i \in DOMAIN compliance_checks : compliance_checks[i].warning
        status == IF all_passed THEN "compliant"
                  ELSE IF has_warnings THEN "compliant_with_warnings"
                  ELSE "non_compliant"
        res == [compliance_status |-> status, checks |-> compliance_checks,
                all_passed |-> all_passed, has_warnings |-> has_warnings]
    IN  IF status = "non_compliant"
        THEN AgentOutput("ComplianceAgent", res, "None", FALSE)
        ELSE AgentOutput("ComplianceAgent", res, "NotificationAgent", TRUE)

\* ------------------------------------------------------- NotificationAgent

Notification(type, recipient, subject) ==
    [type |-> type, recipient |-> recipient, subject |-> subject]

\* crew_member.email or crew_member.name
Recipient(crew_member) ==
    IF crew_member.email \notin {"None", ""} THEN crew_member.email ELSE crew_member.name

send_pay_record_notifications(pay_record, context) ==
    IF IsNone(context.validation_report) THEN << >>
    ELSE << Notification("email", Recipient(pay_record.crew_member), "Pay Record Status") >>
         \o (IF context.validation_report.overall_status = "failed"
             THEN << Notification("alert", "payroll_department",
                                  "Pay Record Validation Failed") >>
             ELSE << >>)

send_claim_notifications(claim, context) ==
    IF IsNone(context.claim_decision) THEN << >>
    ELSE << Notification("email", Recipient(claim.crew_member), "Claim Decision") >>
         \o (IF context.claim_decision.decision = "approved"
             THEN << Notification("task", "finance_department", "Process Payment") >>
             ELSE << >>)

send_workflow_completion_notification(context) ==
    Notification("log", "system", "Workflow Completed")

NotificationAgent_process(agent_input) ==
    LET notifications_sent ==
            (IF ~IsNone(agent_input.pay_record)
             THEN send_pay_record_notifications(agent_input.pay_record,
                                                agent_input.context)
             ELSE << >>)
            \o (IF ~IsNone(agent_input.claim)
                THEN send_claim_notifications(agent_input.claim, agent_input.context)
                ELSE << >>)
            \o << send_workflow_completion_notification(agent_input.context) >>
    IN  AgentOutput("NotificationAgent",
                    [notifications_sent |-> notifications_sent,
                     count |-> Len(notifications_sent)],
                    "None", FALSE)

\* --------------------------------------------------------- CrewPayWorkflow

\* The reducer of the messages channel.
add_messages(left, right) == left \o right

AgentInput(st) ==
    [messages |-> st.messages, pay_record |-> st.pay_record, claim |-> st.claim,
     context |-> st.metadata]

\* What a node hands back to the graph: the state it returns, or the message
\* of the exception it raised.
Returns(st) == [raised |-> "None", state |-> st]

Raises(message, st) == [raised |-> message, state |-> st]

\* Mutant: a failed validation leaves no error message.
run_pay_validation_NoErrorMessage(st, outcome) ==
    LET output ==
            PayValidationAgent_process([AgentInput(st) EXCEPT !.claim = NoneRec], outcome)
    IN  IF output.raised # "None" THEN Raises(output.raised, st)
        ELSE
        LET s1 == [st EXCEPT !.messages = st.messages \o output.messages,
                             !.current_agent = "pay_validation",
                             !.next_agent = output.next_agent,
                             !.iteration_count = st.iteration_count + 1,
                             !.validation_report = output.result.validation_report,
                             !.metadata.validation_report = output.result]
        IN  Returns(IF ~output.should_continue
                    THEN [s1 EXCEPT !.workflow_status = "failed"]
                    ELSE s1)

run_pay_validation(st, outcome) ==
    LET output ==
            PayValidationAgent_process([AgentInput(st) EXCEPT !.claim = NoneRec], outcome)
    IN  IF output.raised # "None" THEN Raises(output.raised, st)
        ELSE
        LET s1 == [st EXCEPT !.messages = st.messages \o output.messages,
                             !.current_agent = "pay_validation",
                             !.next_agent = output.next_agent,
                             !.iteration_count = st.iteration_count + 1,
                             !.validation_report = output.result.validation_report,
                             !.metadata.validation_report = output.result]
        IN  Returns(IF ~output.should_continue
                    THEN [s1 EXCEPT !.workflow_status = "failed",
                                    !.error_message = "Pay validation failed"]
                    ELSE s1)

run_claims_processing(st, stg, outcome) ==
    LET output ==
            ClaimsProcessingAgent_process([AgentInput(st) EXCEPT !.pay_record = NoneRec],
                                          stg, outcome)
    IN  IF output.raised # "None" THEN Raises(output.raised, st)
        ELSE Returns([st EXCEPT !.messages = st.messages \o output.messages,
                                !.current_agent = "claims_processing",
                                !.next_agent = output.next_agent,
                                !.iteration_count = st.iteration_count + 1,
                                !.claim_decision = output.result.claim_decision,
                                !.metadata.claim_decision = output.result])

\* Mutant: the node forgets to count its visit.
run_compliance_NoCount(st, outcome) ==
    LET output == ComplianceAgent_process(AgentInput(st), outcome)
    IN  IF output.raised # "None" THEN Raises(output.raised, st)
        ELSE
        LET s1 == [st EXCEPT !.messages = st.messages \o output.messages,
                             !.current_agent = "compliance",
                             !.next_agent = output.next_agent,
                             !.metadata.compliance = output.result]
        IN  Returns(IF ~output.should_continue
                    THEN [s1 EXCEPT !.workflow_status = "failed",
                                    !.error_message = "Compliance check failed"]
                    ELSE s1)

run_compliance(st, outcome) ==
    LET output == ComplianceAgent_process(AgentInput(st), outcome)
    IN  IF output.raised # "None" THEN Raises(output.raised, st)
        ELSE
        LET s1 == [st EXCEPT !.messages = st.messages \o output.messages,
                             !.current_agent = "compliance",
                             !.next_agent = output.next_agent,
                             !.iteration_count = st.iteration_count + 1,
                             !.metadata.compliance = output.result]
        IN  Returns(IF ~output.should_continue
                    THEN [s1 EXCEPT !.workflow_status = "failed",
                                    !.error_message = "Compliance check failed"]
                    ELSE s1)

\* Mutant: the node marks every run completed.
run_notification_AlwaysCompleted(st) ==
    LET output == NotificationAgent_process(AgentInput(st))
    IN  Returns([st EXCEPT !.messages = st.messages \o output.messages,
                           !.current_agent = "notification",
                           !.next_agent = "None",
                           !.iteration_count = st.iteration_count + 1,
                           !.metadata.notifications = output.result,
                           !.workflow_status = "completed"])

run_notification(st) ==
    LET output == NotificationAgent_process(AgentInput(st))
        s1 == [st EXCEPT !.messages = st.messages \o output.messages,
                         !.current_agent = "notification",
                         !.next_agent = "None",
                         !.iteration_count = st.iteration_count + 1,
                         !.metadata.notifications = output.result]
    IN  Returns(IF st.workflow_status # "failed"
                THEN [s1 EXCEPT !.workflow_status = "completed"]
                ELSE s1)

\* Mutant: the edge does not consult compliance_checks_required.
route_from_pay_validation_NoConfig(st, cfg) ==
    IF st.workflow_status = "failed" THEN "notification"
    ELSE IF st.next_agent = "ComplianceAgent" THEN "compliance"
    ELSE "notification"

route_from_pay_validation(st, cfg) ==
    IF st.workflow_status = "failed" THEN "notification"
    ELSE IF st.next_agent = "ComplianceAgent" /\ cfg.compliance_checks_required
    THEN "compliance"
    ELSE "notification"

\* Mutant: the edge does not consult compliance_checks_required.
route_from_claims_processing_NoConfig(st, cfg) ==
    IF st.workflow_status = "failed" THEN "notification"
    ELSE IF st.next_agent = "ComplianceAgent" THEN "compliance"
    ELSE "notification"

route_from_claims_processing(st, cfg) ==
    IF st.workflow_status = "failed" THEN "notification"
    ELSE IF st.next_agent = "ComplianceAgent" /\ cfg.compliance_checks_required
    THEN "compliance"
    ELSE "notification"

\* Mutant: a failed compliance visit ends the graph.
route_from_compliance_EndOnFailure(st) ==
    IF st.workflow_status = "failed" THEN "end" ELSE "notification"

route_from_compliance(st) ==
    IF st.workflow_status = "failed" THEN "notification" ELSE "notification"

\* The initial_state of validate_pay_record / process_claim.
InitialState(pay_record, claim, next_agent, type) ==
    [messages |-> << >>, pay_record |-> pay_record, claim |-> claim,
     validation_report |-> NoneRec, claim_decision |-> NoneRec,
     current_agent |-> "", next_agent |-> next_agent,
     workflow_status |-> "in_progress", error_message |-> "None",
     iteration_count |-> 0,
     metadata |-> [type |-> type, validation_report |-> NoneRec,
                   claim_decision |-> NoneRec, compliance |-> NoneRec,
                   notifications |-> NoneRec]]

\* The WorkflowResult built from the final state of the graph.
ResultOf(k, final_state) ==
    [status |-> final_state.workflow_status,
     validation_report |->
         IF k = "pay_validation" THEN final_state.validation_report ELSE NoneRec,
     claim_decision |->
         IF k = "claim_processing" THEN final_state.claim_decision ELSE NoneRec,
     messages |-> final_state.messages,
     error_message |-> final_state.error_message,
     metadata |-> final_state.metadata]

\* Mutant: the except clause returns the exception's type, not its message.
FailedResult_NoMessage(message) ==
    [status |-> "failed", validation_report |-> NoneRec, claim_decision |-> NoneRec,
     messages |-> << >>, error_message |-> "Exception",
     metadata |-> [error |-> message]]

\* The WorkflowResult built by the except clause.
FailedResult(message) ==
    [status |-> "failed", validation_report |-> NoneRec, claim_decision |-> NoneRec,
     messages |-> << >>, error_message |-> message,
     metadata |-> [error |-> message]]

\* ----------------------------------------------------------------- the run

Configs ==
    [compliance_checks_required : BOOLEAN, max_iterations : {1, 10}]

SettingsSet ==
    [enable_compliance_checks : BOOLEAN, auto_approve_claim_threshold : {0, 100000}]

NoState == InitialState(NoneRec, NoneRec, "None", "none")

Init ==
    /\ config \in Configs
    /\ settings \in SettingsSet
    /\ pc = "idle"
    /\ kind = "none"
    /\ arg = NoneRec
    /\ state = NoState
    /\ visited = << >>
    /\ llm_calls = << >>
    /\ exc = "None"
    /\ result = NoneRec
    /\ checked = NoneRec
    /\ clock = 0
    /\ rule_runs = << >>
    /\ invocations = << >>

\* One step of the compiled graph: the node's returned state is merged into
\* the channels (messages through its reducer) and the edge out of the node
\* picks the next one; an exception raised by the node leaves the graph.
GraphStep(node, out, next) ==
    /\ visited' = Append(visited, node)
    /\ IF out.raised # "None"
       THEN \* ainvoke raises: the try block never sees the graph's state
            /\ pc' = "except"
            /\ exc' = out.raised
            /\ state' = NoState
       ELSE /\ pc' = next
            /\ exc' = exc
            /\ state' = [out.state EXCEPT
                            !.messages = add_messages(state.messages, out.state.messages)]

ValidatePayRecord(pay_record) ==
    /\ pc = "idle"
    /\ kind' = "pay_validation"
    /\ arg' = pay_record
    /\ IF IsNone(pay_record)
       THEN \* pay_record.id is read for the log line before the try block
            /\ pc' = "raised"
            /\ exc' = "'NoneType' object has no attribute 'id'"
            /\ state' = state
       ELSE /\ pc' = "pay_validation"
            /\ state' = InitialState(pay_record, NoneRec, "PayValidationAgent",
                                     "pay_validation")
            /\ exc' = exc
    /\ UNCHANGED <<config, settings, visited, llm_calls, result>>
    /\ UNCHANGED <<ruleCheckVars, invocations>>

ProcessClaim(claim) ==
    /\ pc = "idle"
    /\ kind' = "claim_processing"
    /\ arg' = claim
    /\ IF IsNone(claim)
       THEN \* claim.id is read for the log line before the try block
            /\ pc' = "raised"
            /\ exc' = "'NoneType' object has no attribute 'id'"
            /\ state' = state
       ELSE /\ pc' = "claims_processing"
            /\ state' = InitialState(NoneRec, claim, "ClaimsProcessingAgent",
                                     "claim_processing")
            /\ exc' = exc
    /\ UNCHANGED <<config, settings, visited, llm_calls, result>>
    /\ UNCHANGED <<ruleCheckVars, invocations>>

PayValidationNode(outcome) ==
    /\ pc = "pay_validation"
    /\ LET out == run_pay_validation(state, outcome)
       IN  GraphStep("pay_validation", out,
                     route_from_pay_validation(out.state, config))
    /\ llm_calls' = IF IsNone(state.pay_record) THEN llm_calls
                    ELSE Append(llm_calls, LLMCall("PayValidationAgent", outcome))
    /\ UNCHANGED <<config, settings, kind, arg, result>>
    /\ UNCHANGED <<ruleCheckVars, invocations>>

ClaimsProcessingNode(outcome) ==
    /\ pc = "claims_processing"
    /\ LET out == run_claims_processing(state, settings, outcome)
       IN  GraphStep("claims_processing", out,
                     route_from_claims_processing(out.state, config))
    /\ llm_calls' = IF ClaimsAgentCallsLLM(AgentInput(state), settings)
                    THEN Append(llm_calls, LLMCall("ClaimsProcessingAgent", outcome))
                    ELSE llm_calls
    /\ UNCHANGED <<config, settings, kind, arg, result>>
    /\ UNCHANGED <<ruleCheckVars, invocations>>

ComplianceNode(outcome) ==
    /\ pc = "compliance"
    /\ LET out == run_compliance(state, outcome)
       IN  GraphStep("compliance", out, route_from_compliance(out.state))
    /\ llm_calls' = IF ~IsNone(state.pay_record) /\ DividesByZero(state.pay_record)
                    THEN llm_calls
                    ELSE Append(llm_calls, LLMCall("ComplianceAgent", outcome))
    /\ UNCHANGED <<config, settings, kind, arg, result>>
    /\ UNCHANGED <<ruleCheckVars, invocations>>

NotificationNode ==
    /\ pc = "notification"
    /\ GraphStep("notification", run_notification(state), "end")
    /\ UNCHANGED <<config, settings, kind, arg, llm_calls, result>>
    /\ UNCHANGED <<ruleCheckVars, invocations>>

\* A node raises an exception its agent does not foresee (the graph library,
\* the logger, the allocator): the run is in the node when it happens.
NodeFails ==
    /\ pc \in {"pay_validation", "claims_processing", "compliance", "notification"}
    /\ GraphStep(pc, Raises("unexpected error", state), pc)
    /\ UNCHANGED <<config, settings, kind, arg, llm_calls, result>>
    /\ UNCHANGED <<ruleCheckVars, invocations>>

\* graph.ainvoke returned: the try block builds the WorkflowResult.
ReturnResult ==
    /\ pc = "end"
    /\ result' = ResultOf(kind, state)
    /\ pc' = "returned"
    /\ UNCHANGED <<config, settings, kind, arg, state, visited, llm_calls, exc>>
    /\ UNCHANGED <<ruleCheckVars, invocations>>

\* The except clause of validate_pay_record / process_claim.
HandleException ==
    /\ pc = "except"
    /\ result' = FailedResult(exc)
    /\ pc' = "returned"
    /\ UNCHANGED <<config, settings, kind, arg, state, visited, llm_calls, exc>>
    /\ UNCHANGED <<ruleCheckVars, invocations>>

Next ==
    \/ \E pay_record \in PayRecords \cup {NoneRec} : ValidatePayRecord(pay_record)
    \/ \E claim \in Claims \cup {NoneRec} : ProcessClaim(claim)
    \/ \E outcome \in PayLLMOutcomes : PayValidationNode(outcome)
    \/ \E outcome \in ClaimLLMOutcomes : ClaimsProcessingNode(outcome)
    \/ \E outcome \in ComplianceLLMOutcomes : ComplianceNode(outcome)
    \/ NotificationNode
    \/ NodeFails
    \/ ReturnResult
    \/ HandleException

Spec == Init /\ [][Next]_vars

\* ------------------------------------------- the rule checks by themselves

\* Mutant: a passed result turns into a warning once the clock has moved.
Stamp_ByTheClock(res, now) ==
    [check_name |-> res.check_name,
     status |-> IF now > 0 /\ res.status = "passed" THEN "warning" ELSE res.status,
     message |-> res.message, timestamp |-> now]

\* A ValidationResult as constructed: timestamp is filled in by its
\* default_factory, datetime.now.
Stamp(res, now) ==
    [check_name |-> res.check_name, status |-> res.status,
     message |-> res.message, timestamp |-> now]

\* The readings datetime.now() gives to four results constructed one after
\* the other when the last reading was now. The readings taken are those
\* of a clock that does not go back and advances by at most one unit during
\* the four.
ClockReadings(now) ==
    { t \in [1..4 -> now..(now + 1)] : \A i \in 1..3 : t[i] <= t[i + 1] }

\* Checks 1 to 4 of PayValidationAgent.process, in its order.
RuleChecks(pay_record, t) ==
    << Stamp(validate_hours(pay_record), t[1]),
       Stamp(validate_pay_calculation(pay_record), t[2]),
       Stamp(validate_pay_period(pay_record), t[3]),
       Stamp(validate_data_completeness(pay_record), t[4]) >>

InitRuleChecks ==
    /\ config \in Configs
    /\ settings \in SettingsSet
    /\ pc = "idle"
    /\ kind = "none"
    /\ arg = NoneRec
    /\ state = NoState
    /\ visited = << >>
    /\ llm_calls = << >>
    /\ exc = "None"
    /\ result = NoneRec
    /\ checked \in PayRecords
    /\ clock = 0
    /\ rule_runs = << >>
    /\ invocations = << >>

\* The four rule checks are run once more on the same, unchanged record.
RunRuleChecks ==
    /\ Len(rule_runs) < MaxRuleRuns
    /\ \E t \in ClockReadings(clock) :
          /\ rule_runs' = Append(rule_runs, RuleChecks(checked, t))
          /\ clock' = t[4]
    /\ UNCHANGED <<config, settings, singleRunVars, checked, invocations>>

NextRuleChecks == RunRuleChecks

SpecRuleChecks == InitRuleChecks /\ [][NextRuleChecks]_vars

\* ------------------------------------- two invocations on one workflow

\* The claim of two concurrent invocations is about two.
InvocationIds == {1, 2}

\* The nodes of the graph.
Nodes == {"pay_validation", "claims_processing", "compliance", "notification"}

\* The response kept for a node that makes no advisory call.
NoResponse == "no call"

\* What is kept for a node that raised an exception its agent does not
\* foresee.
NodeFailure == "unexpected error"

\* An invocation before it is called.  state, visited and exc are the locals
\* of its call; responses keeps the advisory response each node received;
\* awaiting says that its node is suspended at its advisory call; overlapped
\* remembers that a node of it was resumed while another invocation was
\* suspended at an advisory call of its own.
IdleInvocation ==
    [pc |-> "idle", kind |-> "none", arg |-> NoneRec, state |-> NoState,
     visited |-> << >>, responses |-> [n \in Nodes |-> NoResponse],
     awaiting |-> FALSE, overlapped |-> FALSE, exc |-> "None",
     result |-> NoneRec]

\* The inputs of the concurrent invocations: the record of the
\* pay-calculation example, the record without hours, an overtime claim
\* under the auto-approve threshold and one above it, and None.
ConcurrentPayRecords ==
    { r \in ExampleRecords : r.gross_pay = 660625 } \cup {ZeroRecord, NoneRec}

ConcurrentClaims ==
    { c \in Claims : /\ c.claim_type = "overtime"
                     /\ c.description_len = 30
                     /\ c.supporting_documents = << "timesheet.xlsx" >>
                     /\ c.amount \in {50000, 1500000} } \cup {NoneRec}

\* An invocation after its call: initial_state is a dict built by the call
\* itself, the graph is compiled for it.
Started(k, input) ==
    IF IsNone(input)
    THEN [IdleInvocation EXCEPT
            !.kind = k, !.arg = input, !.pc = "raised",
            !.exc = "'NoneType' object has no attribute 'id'"]
    ELSE [IdleInvocation EXCEPT
            !.kind = k, !.arg = input,
            !.pc = IF k = "pay_validation" THEN "pay_validation"
                   ELSE "claims_processing",
            !.state = IF k = "pay_validation"
                      THEN InitialState(input, NoneRec, "PayValidationAgent",
                                        "pay_validation")
                      ELSE InitialState(NoneRec, input, "ClaimsProcessingAgent",
                                        "claim_processing")]

\* Whether the node makes its advisory call on this state.
CallsLLM(node, st, stg) ==
    CASE node = "pay_validation" -> ~IsNone(st.pay_record)
      [] node = "claims_processing" -> ClaimsAgentCallsLLM(AgentInput(st), stg)
      [] node = "compliance" ->
            ~(~IsNone(st.pay_record) /\ DividesByZero(st.pay_record))
      [] OTHER -> FALSE

OutcomesOf(node) ==
    CASE node = "pay_validation" -> PayLLMOutcomes
      [] node = "claims_processing" -> ClaimLLMOutcomes
      [] node = "compliance" -> ComplianceLLMOutcomes
      [] OTHER -> {NoResponse}

\* What the node returns, or raises, on a state.
NodeOutput(node, st, stg, outcome) ==
    CASE node = "pay_validation" -> run_pay_validation(st, outcome)
      [] node = "claims_processing" -> run_claims_processing(st, stg, outcome)
      [] node = "compliance" -> run_compliance(st, outcome)
      [] OTHER -> run_notification(st)

\* The edge out of the node after it returned out.
EdgeOut(node, out, cfg) ==
    IF out.raised # "None" THEN "except"
    ELSE CASE node = "pay_validation" -> route_from_pay_validation(out.state, cfg)
           [] node = "claims_processing" ->
                  route_from_claims_processing(out.state, cfg)
           [] node = "compliance" -> route_from_compliance(out.state)
           [] OTHER -> "end"

\* The invocation after one step of its graph (GraphStep): its node, handed
\* the state st, returned out and the edge out of it leads to next.
AfterNode(inv, st, out, next, outcome) ==
    LET common == [inv EXCEPT !.visited = Append(@, inv.pc),
                              !.responses[inv.pc] = outcome,
                              !.awaiting = FALSE,
                              !.pc = next]
    IN  IF out.raised # "None"
        THEN [common EXCEPT !.exc = out.raised, !.state = NoState]
        ELSE [common EXCEPT
                !.state = [out.state EXCEPT
                             !.messages = add_messages(st.messages,
                                                       out.state.messages)]]

\* The invocation after the try block built its WorkflowResult, or after
\* its except clause did.
AfterReturn(inv) ==
    [inv EXCEPT !.pc = "returned",
                !.result = IF inv.pc = "end" THEN ResultOf(inv.kind, inv.state)
                           ELSE FailedResult(inv.exc)]

\* Mutant: one WorkflowState for the workflow, that of its first invocation.
StateOf_Shared(invs, i) == invs[1].state

\* The WorkflowState a node of invocation i is handed: the one that grew
\* from the initial_state of its own call.
StateOf(invs, i) == invs[i].state

InitConcurrent ==
    /\ config \in Configs
    /\ settings \in SettingsSet
    /\ pc = "idle"
    /\ kind = "none"
    /\ arg = NoneRec
    /\ state = NoState
    /\ visited = << >>
    /\ llm_calls = << >>
    /\ exc = "None"
    /\ result = NoneRec
    /\ checked = NoneRec
    /\ clock = 0
    /\ rule_runs = << >>
    /\ invocations = [i \in InvocationIds |-> IdleInvocation]

InvokeValidatePayRecord(i, pay_record) ==
    /\ invocations[i].pc = "idle"
    /\ invocations' = [invocations EXCEPT ![i] = Started("pay_validation", pay_record)]
    /\ UNCHANGED <<config, settings, singleRunVars, ruleCheckVars>>

InvokeProcessClaim(i, claim) ==
    /\ invocations[i].pc = "idle"
    /\ invocations' = [invocations EXCEPT ![i] = Started("claim_processing", claim)]
    /\ UNCHANGED <<config, settings, singleRunVars, ruleCheckVars>>

\* The node of invocation i reaches await self.llm.ainvoke(...) and gives
\* the event loop to the other invocation.
AwaitAdvisory(i) ==
    /\ invocations[i].pc \in Nodes
    /\ ~invocations[i].awaiting
    /\ CallsLLM(invocations[i].pc, StateOf(invocations, i), settings)
    /\ invocations' = [invocations EXCEPT ![i].awaiting = TRUE]
    /\ UNCHANGED <<config, settings, singleRunVars, ruleCheckVars>>

\* The advisory call of invocation i answers; its node runs to its end and
\* the graph takes the edge out of it.
ResumeNode(i, outcome) ==
    /\ invocations[i].pc \in Nodes
    /\ invocations[i].awaiting
    /\ outcome \in OutcomesOf(invocations[i].pc)
    /\ \E out \in {NodeOutput(invocations[i].pc, StateOf(invocations, i),
                               settings, outcome)} :
       \E next \in {EdgeOut(invocations[i].pc, out, config)} :
          invocations' =
              [invocations EXCEPT
                 ![i] = [AfterNode(@, StateOf(invocations, i), out, next, outcome)
                            EXCEPT !.overlapped =
                                      @ \/ \E j \in InvocationIds \ {i} :
                                               invocations[j].awaiting]]
    /\ UNCHANGED <<config, settings, singleRunVars, ruleCheckVars>>

\* A node of invocation i that makes no advisory call runs without
\* suspending.
StepNode(i) ==
    /\ invocations[i].pc \in Nodes
    /\ ~CallsLLM(invocations[i].pc, StateOf(invocations, i), settings)
    /\ \E out \in {NodeOutput(invocations[i].pc, StateOf(invocations, i),
                               settings, NoResponse)} :
       \E next \in {EdgeOut(invocations[i].pc, out, config)} :
          invocations' =
              [invocations EXCEPT
                 ![i] = AfterNode(@, StateOf(invocations, i), out, next, NoResponse)]
    /\ UNCHANGED <<config, settings, singleRunVars, ruleCheckVars>>

\* A node of invocation i raises an exception its agent does not foresee.
NodeFailsOf(i) ==
    /\ invocations[i].pc \in Nodes
    /\ invocations' =
           [invocations EXCEPT
              ![i] = AfterNode(@, StateOf(invocations, i),
                               Raises(NodeFailure, StateOf(invocations, i)),
                               "except", NodeFailure)]
    /\ UNCHANGED <<config, settings, singleRunVars, ruleCheckVars>>

ReturnResultOf(i) ==
    /\ invocations[i].pc = "end"
    /\ invocations' = [invocations EXCEPT ![i] = AfterReturn(@)]
    /\ UNCHANGED <<config, settings, singleRunVars, ruleCheckVars>>

HandleExceptionOf(i) ==
    /\ invocations[i].pc = "except"
    /\ invocations' = [invocations EXCEPT ![i] = AfterReturn(@)]
    /\ UNCHANGED <<config, settings, singleRunVars, ruleCheckVars>>

NextConcurrent ==
    \/ \E i \in InvocationIds, pay_record \in ConcurrentPayRecords :
          InvokeValidatePayRecord(i, pay_record)
    \/ \E i \in InvocationIds, claim \in ConcurrentClaims : InvokeProcessClaim(i, claim)
    \/ \E i \in InvocationIds : AwaitAdvisory(i)
    \/ \E i \in InvocationIds, outcome \in PayLLMOutcomes \cup ClaimLLMOutcomes
                                            \cup ComplianceLLMOutcomes :
          ResumeNode(i, outcome)
    \/ \E i \in InvocationIds : StepNode(i)
    \/ \E i \in InvocationIds : NodeFailsOf(i)
    \/ \E i \in InvocationIds : ReturnResultOf(i)
    \/ \E i \in InvocationIds : HandleExceptionOf(i)

SpecConcurrent == InitConcurrent /\ [][NextConcurrent]_vars

\* ------------------------------------------------------------------ claims

\* The node's output asks for the compliance review stage.
RequestsReview(st) == st.next_agent = "ComplianceAgent"

\* The edge the claims describe out of pay_validation and claims_processing.
RoutePattern(st) ==
    IF st.workflow_status = "failed" THEN "notification"
    ELSE IF config.compliance_checks_required /\ RequestsReview(st) THEN "compliance"
    ELSE "notification"

HardCheckFailed(st) ==
    /\ st.current_agent \in {"compliance", "notification"}
    /\ ~IsNone(st.metadata.compliance)
    /\ \E i \in DOMAIN st.metadata.compliance.checks :
          /\ ~st.metadata.compliance.checks[i].passed
          /\ ~st.metadata.compliance.checks[i].warning

\* C3: whenever the compliance node produces a failed hard check, the run is
\* marked failed with the error message 'Compliance check failed', whatever
\* the other checks of the visit say.
C3_HardCheckFailsRun ==
    HardCheckFailed(state) =>
        /\ state.workflow_status = "failed"
        /\ state.error_message = "Compliance check failed"

\* The operation was invoked without its pay record / claim.
MissingInput == kind # "none" /\ IsNone(arg)

NoNodeTwice ==
    \A i, j \in DOMAIN visited : visited[i] = visited[j] => i = j

\* C4: validate_pay_record without a pay record and process_claim without a
\* claim hand back a WorkflowResult with status failed and a non-empty error
\* message; nothing is raised to the caller and no node is retried.
C4_MissingInputFailedResult ==
    MissingInput =>
        /\ pc # "raised"
        /\ NoNodeTwice
        /\ pc = "returned" =>
              /\ result.status = "failed"
              /\ result.error_message \notin {"None", ""}

\* The completeness check's conditions, read off the pay record.
Incomplete(pay_record) ==
    \/ pay_record.crew_member.name = ""
    \/ pay_record.crew_member.employee_id = ""
    \/ pay_record.regular_hours < 0
    \/ pay_record.gross_pay <= 0

IncompleteRun == kind = "pay_validation" /\ ~IsNone(arg) /\ Incomplete(arg)

\* C5: a pay-validation run on a record that fails the completeness check
\* never visits compliance, returns status failed, and (no node raising)
\* visits exactly pay_validation then notification.
C5_IncompleteRecordRoute ==
    IncompleteRun =>
        /\ pc # "compliance"
        /\ \A i \in DOMAIN visited : visited[i] # "compliance"
        /\ pc = "returned" =>
              /\ result.status = "failed"
              /\ exc = "None" => visited = <<"pay_validation", "notification">>

C5_Witness ==
    /\ IncompleteRun
    /\ pc = "returned"
    /\ exc = "None"
    /\ validate_hours(arg).status = "passed"
    /\ validate_pay_calculation(arg).status = "passed"
    /\ validate_pay_period(arg).status = "passed"

NotificationSetsStatus ==
    (pc = "notification" /\ pc' = "end") =>
        state'.workflow_status =
            (IF state.workflow_status = "failed" THEN "failed" ELSE "completed")

NothingAfterNotification ==
    pc \in {"end", "returned"} => (visited' = visited /\ state' = state)

AfterNotification ==
    state.current_agent = "notification" =>
        /\ pc \in {"end", "returned"}
        /\ visited[Len(visited)] = "notification"
        /\ state.workflow_status \in {"completed", "failed"}

\* C6: the notification node is terminal and sets the status to completed
\* exactly when no earlier node marked the run failed; a failed status is
\* still failed after it, and no node runs after it.
C6_NotificationTerminal ==
    /\ []AfterNotification
    /\ [][NotificationSetsStatus]_vars
    /\ [][NothingAfterNotification]_vars

C6_Witness ==
    /\ state.current_agent = "notification"
    /\ state.workflow_status = "failed"
    /\ state.error_message = "Compliance check failed"
    /\ pc = "returned"

\* C7: after the compliance node the next node is always notification,
\* failed or not; pay_validation and claims_processing never run after it.
C7_ComplianceThenNotification ==
    /\ state.current_agent = "compliance" => pc = "notification"
    /\ \A i, j \in DOMAIN visited :
          visited[i] = "compliance" /\ j > i => visited[j] = "notification"

C7_Witness ==
    /\ state.workflow_status = "failed"
    /\ state.error_message = "Compliance check failed"
    /\ visited = <<"claims_processing", "compliance", "notification">>

\* C8: no node is visited twice, at most 3 nodes are visited, and
\* iteration_count counts the node visits made, so it never exceeds 3.
C8_AtMostThreeVisits ==
    /\ NoNodeTwice
    /\ Len(visited) <= 3
    /\ state.iteration_count <= 3
    /\ (pc \in Nodes \cup {"end", "returned"} /\ exc = "None") =>
           state.iteration_count = Len(visited)

C8_Witness ==
    /\ Len(visited) = 3
    /\ state.iteration_count = 3

\* C9: for every valid WorkflowConfig (max_iterations >= 1) and every run,
\* iteration_count stays strictly below max_iterations.
C9_BelowMaxIterations ==
    state.iteration_count < config.max_iterations

\* C10: an exception that escapes a node is captured: the caller gets a
\* WorkflowResult with status failed and the exception's message, without
\* report, decision or messages, whatever earlier nodes had completed.
C10_NodeExceptionCaptured ==
    /\ visited # << >> => pc # "raised"
    /\ pc = "except" => exc # "None"
    /\ (pc = "returned" /\ exc # "None") =>
          /\ result.status = "failed"
          /\ result.error_message = exc
          /\ IsNone(result.validation_report)
          /\ IsNone(result.claim_decision)
          /\ result.messages = << >>

C10_Witness ==
    /\ pc = "returned"
    /\ exc # "None"
    /\ Len(visited) = 3

\* The advisory call of the given agent raised in this run.
AdvisoryRaised(agent) ==
    \E i \in DOMAIN llm_calls : llm_calls[i].agent = agent /\ llm_calls[i].raised

\* The message ends in the text of the advisory call's exception.
EndsInError(message) ==
    \E text \in { "LLM validation skipped due to error: ",
                   "Automatic evaluation unavailable. Manual review required. Error: ",
                   "LLM compliance check skipped: " } :
        message = text \o LLMError

\* The advisory check's result in a validation report: the fifth and last.
LLMResult(report) == report.validation_results[5]

\* C11: when the advisory call raises inside the pay_validation node, the
\* exception is caught and the advisory check's result has status
\* requires_review, with a message that ends in the error text.
C11_AdvisoryFailureRequiresReview ==
    (AdvisoryRaised("PayValidationAgent") /\ ~IsNone(state.validation_report)) =>
        /\ LLMResult(state.validation_report).check_name = "llm_semantic_check"
        /\ LLMResult(state.validation_report).status = "requires_review"
        /\ EndsInError(LLMResult(state.validation_report).message)

\* The run processes a claim that passes the rule checks and is not
\* auto-approved.
AdvisoryClaimRun ==
    /\ kind = "claim_processing"
    /\ ~IsNone(arg)
    /\ validate_claim(arg).is_valid
    /\ ~AutoApproves(arg, settings)

\* C12: for a claim that passes the rule checks and is not auto-approved, if
\* the advisory call raises then the decision is under_review with
\* approved_amount 0 and a rationale that ends in the error text, and the run
\* (no node raising) goes on to notification, skips compliance and returns
\* completed with that decision.
C12_ClaimAdvisoryFailureUnderReview ==
    (AdvisoryClaimRun /\ AdvisoryRaised("ClaimsProcessingAgent") /\ exc = "None") =>
        /\ state.claim_decision.decision = "under_review"
        /\ state.claim_decision.approved_amount = 0
        /\ EndsInError(state.claim_decision.rationale)
        /\ state.workflow_status # "failed"
        /\ pc \in {"notification", "end", "returned"}
        /\ \A i \in DOMAIN visited : visited[i] # "compliance"
        /\ pc = "returned" =>
              /\ result.status = "completed"
              /\ result.claim_decision = state.claim_decision
              /\ visited = <<"claims_processing", "notification">>

C12_Witness ==
    /\ AdvisoryClaimRun
    /\ AdvisoryRaised("ClaimsProcessingAgent")
    /\ pc = "returned"
    /\ result.status = "completed"
    /\ config.compliance_checks_required
    /\ settings.enable_compliance_checks

\* The agent whose process() a node runs.
AgentOf(node) ==
    CASE node = "pay_validation" -> "PayValidationAgent"
      [] node = "claims_processing" -> "ClaimsProcessingAgent"
      [] node = "compliance" -> "ComplianceAgent"
      [] OTHER -> "NotificationAgent"

\* The status the node in turn leaves when its advisory call succeeds with
\* the most favourable answer.
StatusWithoutFailure ==
    CASE pc = "pay_validation" ->
            run_pay_validation(state, "passed").state.workflow_status
      [] pc = "claims_processing" ->
            run_claims_processing(state, settings, "approved").state.workflow_status
      [] pc = "compliance" ->
            run_compliance(state, "compliant").state.workflow_status
      [] OTHER -> state.workflow_status

\* The calls made are one per visited advisory-calling node at most, each by
\* the agent of a visited node, and no agent calls twice.
AtMostOneCallPerVisit ==
    /\ Len(llm_calls) <= Len(visited)
    /\ \A i \in DOMAIN llm_calls :
          /\ llm_calls[i].agent # "NotificationAgent"
          /\ \E j \in DOMAIN visited : AgentOf(visited[j]) = llm_calls[i].agent
    /\ \A i, j \in DOMAIN llm_calls :
          llm_calls[i].agent = llm_calls[j].agent => i = j

\* A step makes at most one advisory call, and a step whose call raised
\* stays in the graph, raises nothing, and leaves the run failed only if the
\* node would have left it failed without the failure.  (The converse does
\* not hold: in the compliance node the warning of a failed call can mask a
\* failed hard check.)
AdvisoryFailureLocal ==
    /\ Len(llm_calls') <= Len(llm_calls) + 1
    /\ (Len(llm_calls') = Len(llm_calls) + 1 /\ llm_calls'[Len(llm_calls')].raised) =>
          /\ llm_calls'[Len(llm_calls')].agent = AgentOf(pc)
          /\ pc' \in {"compliance", "notification"}
          /\ exc' = exc
          /\ state'.current_agent = pc
          /\ state'.workflow_status # "completed"
          /\ state'.workflow_status = "failed" => StatusWithoutFailure = "failed"

\* C13: an advisory-call failure is handled inside the node where it
\* happens, in pay_validation, claims_processing and compliance alike: the
\* call is made at most once per node visit and never repeated, and its
\* failure neither raises out of the node nor, by itself, makes the run
\* failed.
C13_AdvisoryFailureHandledLocally ==
    /\ []AtMostOneCallPerVisit
    /\ [][AdvisoryFailureLocal]_vars

C13_Witness ==
    /\ Len(llm_calls) = 2
    /\ AdvisoryRaised("PayValidationAgent")
    /\ AdvisoryRaised("ComplianceAgent")
    /\ pc = "returned"
    /\ result.status = "completed"

\* The ordering failed > requires_review > warning > passed.
Rank(status) ==
    CASE status = "failed" -> 3
      [] status = "requires_review" -> 2
      [] status = "warning" -> 1
      [] status = "passed" -> 0

Worst(results) ==
    CHOOSE s \in {results[i].status : i \in DOMAIN results} :
        \A i \in DOMAIN results : Rank(s) >= Rank(results[i].status)

\* C14: the report's overall_status is the worst status, under the ordering
\* failed > requires_review > warning > passed, among its five results,
\* which are the four rule checks of the pay record followed by the
\* advisory check.
C14_OverallStatusIsWorst ==
    ~IsNone(state.validation_report) =>
        LET results == state.validation_report.validation_results
        IN  /\ Len(results) = 5
            /\ results[1] = validate_hours(arg)
            /\ results[2] = validate_pay_calculation(arg)
            /\ results[3] = validate_pay_period(arg)
            /\ results[4] = validate_data_completeness(arg)
            /\ results[5].check_name = "llm_semantic_check"
            /\ state.validation_report.overall_status = Worst(results)

C14_Witness ==
    /\ ~IsNone(state.validation_report)
    /\ state.validation_report.overall_status = "failed"
    /\ validate_hours(arg).status = "warning"
    /\ validate_pay_calculation(arg).status = "failed"
    /\ validate_data_completeness(arg).status = "passed"
    /\ LLMResult(state.validation_report).status = "warning"

\* C15: constructing a PayRecord fails for every pair of dates with
\* pay_period_end <= pay_period_start, the equal dates included, so every
\* pay record a run is invoked with has its end after its start.
C15_NoRecordEndsByItsStart ==
    (kind = "pay_validation" /\ ~IsNone(arg)) =>
        arg.pay_period_end > arg.pay_period_start

\* The hours a pay period of two weeks allows.
HoursCap == (max_regular_hours_per_week + max_overtime_hours_per_week) * 2

\* C16: the hours check, with total = regular_hours + overtime_hours and
\* cap the configured maximum, is failed when total > cap, warning when
\* total >= 90% of cap (and total <= cap), passed otherwise; a total of
\* exactly 90% of the cap yields warning.
C16_HoursCheckWarnsFromNinetyPercent ==
    ~IsNone(state.validation_report) =>
        LET total == arg.regular_hours + arg.overtime_hours
        IN  state.validation_report.validation_results[1].status =
                (IF total > HoursCap THEN "failed"
                 ELSE IF 10 * total >= 9 * HoursCap THEN "warning"
                 ELSE "passed")

\* C17: the pay-calculation check fails exactly when gross_pay is more than
\* 0.01 away from regular_hours * rate + overtime_hours * rate * 1.5 or
\* net_pay is more than 0.01 away from gross_pay - deductions, and passes
\* otherwise; with 80 regular and 5 overtime hours at 75.50, a gross pay of
\* 6606.25 passes and one of 6415.00 fails.
C17_PayCalculationCheck ==
    ~IsNone(state.validation_report) =>
        LET check == state.validation_report.validation_results[2]
            gross_off ==
                Abs(2 * arg.gross_pay
                    - (2 * arg.regular_hours * arg.crew_member.hourly_rate
                       + 3 * arg.overtime_hours * arg.crew_member.hourly_rate)) > 2
            net_off == Abs(arg.net_pay - (arg.gross_pay - arg.deductions)) > 1
        IN  /\ check.check_name = "pay_calculation_check"
            /\ check.status = (IF gross_off \/ net_off THEN "failed" ELSE "passed")
            /\ (arg \in ExampleRecords /\ arg.gross_pay = 660625) => check.status = "passed"
            /\ (arg \in ExampleRecords /\ arg.gross_pay = 641500) => check.status = "failed"

C17_Witness ==
    /\ ~IsNone(state.validation_report)
    /\ arg \in ExampleRecords
    /\ arg.gross_pay = 660625
    /\ state.validation_report.validation_results[2].status = "passed"
    /\ pc = "returned"

\* The reasons the rule check gives for a rejection.
RuleReasons ==
    { "Claim description is too short or missing",
      "Claim amount must be greater than zero",
      "Overtime claim validation failed - missing timesheet documentation",
      "Reimbursement claims require supporting documents" }

\* The decision was made by the rule check: a rejection with one of its
\* reasons.
RuleRejected(decision) ==
    /\ decision.decision = "rejected"
    /\ decision.rationale \in RuleReasons

\* The conditions under which the rule check is to reject.
MustReject(claim) ==
    \/ claim.description_len < 10
    \/ claim.amount <= 0
    \/ /\ claim.claim_type = "overtime"
       /\ \A i \in DOMAIN claim.supporting_documents :
             claim.supporting_documents[i] \notin TimesheetLike
    \/ /\ claim.claim_type = "reimbursement"
       /\ Len(claim.supporting_documents) = 0

\* C18: the claim rule check rejects a claim, with an explicit reason and
\* approved_amount 0, exactly when its description is shorter than 10
\* characters, its amount is <= 0, it is an overtime claim none of whose
\* documents is timesheet-like, or it is a reimbursement claim without
\* documents.
C18_RuleCheckRejectsExactly ==
    (kind = "claim_processing" /\ ~IsNone(state.claim_decision)) =>
        /\ RuleRejected(state.claim_decision) <=> MustReject(arg)
        /\ RuleRejected(state.claim_decision) =>
              state.claim_decision.approved_amount = 0

\* The run processes a claim that passes the rule checks and whose amount
\* is at most the configured auto-approve threshold.
UnderThresholdRun ==
    /\ kind = "claim_processing"
    /\ ~IsNone(arg)
    /\ validate_claim(arg).is_valid
    /\ settings.auto_approve_claim_threshold # 0
    /\ arg.amount <= settings.auto_approve_claim_threshold

ShortDescriptionRun ==
    /\ kind = "claim_processing"
    /\ ~IsNone(arg)
    /\ arg.description_len < 10

\* C20: a claim whose description is shorter than 10 characters is rejected
\* with the rationale that names the description, and no advisory call is
\* made at any point of its run, neither before nor after the rejection.
C20_ShortDescriptionNoAdvisory ==
    ShortDescriptionRun =>
        /\ llm_calls = << >>
        /\ pc # "compliance"
        /\ ~IsNone(state.claim_decision) =>
              /\ state.claim_decision.decision = "rejected"
              /\ state.claim_decision.approved_amount = 0
              /\ state.claim_decision.rationale =
                     "Claim description is too short or missing"
        /\ (pc = "returned" /\ exc = "None") =>
              /\ result.claim_decision = state.claim_decision
              /\ visited = <<"claims_processing", "notification">>

C20_Witness ==
    /\ ShortDescriptionRun
    /\ validate_claim_NoDescription(arg).is_valid
    /\ ~AutoApproves(arg, settings)
    /\ pc = "returned"
    /\ exc = "None"
    /\ result.claim_decision.decision = "rejected"
    /\ llm_calls = << >>

\* C24: the messages of a WorkflowResult from a run that raised no exception
\* are exactly one message per node visited, in visit order, none of them
\* twice (each node returning the accumulated list, and the messages field
\* merged by the add_messages reducer).
C24_OneMessagePerVisit ==
    (pc = "returned" /\ exc = "None") =>
        /\ Len(result.messages) = Len(visited)
        /\ \A i \in DOMAIN result.messages :
              result.messages[i] = AgentOf(visited[i])
        /\ \A i, j \in DOMAIN result.messages :
              result.messages[i] = result.messages[j] => i = j

\* The notifications a run has sent include the payment task to finance.
FinanceTaskSent(st) ==
    /\ ~IsNone(st.metadata.notifications)
    /\ \E i \in DOMAIN st.metadata.notifications.notifications_sent :
          /\ st.metadata.notifications.notifications_sent[i].type = "task"
          /\ st.metadata.notifications.notifications_sent[i].recipient =
                 "finance_department"

\* C25: no claim run that ends failed emits the 'Process Payment' task to
\* finance_department; the task is emitted only in runs that end completed
\* with an approved decision.
C25_NoFinanceTaskWhenFailed ==
    (kind = "claim_processing" /\ FinanceTaskSent(state)) =>
        /\ state.workflow_status = "completed"
        /\ state.claim_decision.decision = "approved"

VisitedCompliance == \E i \in DOMAIN visited : visited[i] = "compliance"

\* A pay-validation run past its first node whose verdict is not failed.
PayRunNotFailed ==
    /\ kind = "pay_validation"
    /\ ~IsNone(state.validation_report)
    /\ state.validation_report.overall_status # "failed"

\* C26: a pay-validation run whose overall validation status is not failed
\* goes from pay_validation to compliance exactly when
\* WorkflowConfig.compliance_checks_required is true, for passed and
\* warning verdicts alike and whatever settings.enable_compliance_checks
\* says; a finished run (no node raising) has visited compliance exactly
\* in that case.
C26_PayRouteFollowsConfigOnly ==
    PayRunNotFailed =>
        /\ state.validation_report.overall_status \in {"passed", "warning"}
        /\ state.current_agent = "pay_validation" =>
              (pc = "compliance" <=> config.compliance_checks_required)
        /\ (pc \in {"end", "returned"} /\ exc = "None") =>
              (VisitedCompliance <=> config.compliance_checks_required)

C26_Witness ==
    /\ PayRunNotFailed
    /\ state.validation_report.overall_status = "warning"
    /\ ~settings.enable_compliance_checks
    /\ config.compliance_checks_required
    /\ VisitedCompliance
    /\ pc = "returned"

\* A claim run past its first node.
ClaimRunDecided == kind = "claim_processing" /\ ~IsNone(state.claim_decision)

\* C27: a claim run goes from claims_processing to compliance exactly when
\* the decision is approved and both settings.enable_compliance_checks and
\* WorkflowConfig.compliance_checks_required are true; a rejected or
\* under_review decision goes straight to notification, and the
\* claims_processing node never marks the run failed.
C27_ClaimRouteNeedsApprovalAndBothFlags ==
    ClaimRunDecided =>
        LET wanted ==
                /\ state.claim_decision.decision = "approved"
                /\ settings.enable_compliance_checks
                /\ config.compliance_checks_required
        IN  /\ state.current_agent = "claims_processing" =>
                  /\ pc = (IF wanted THEN "compliance" ELSE "notification")
                  /\ state.workflow_status = "in_progress"
                  /\ state.error_message = "None"
            /\ (pc \in {"end", "returned"} /\ exc = "None") =>
                  (VisitedCompliance <=> wanted)
            /\ (pc = "compliance" \/ VisitedCompliance) => wanted

C27_Witness ==
    /\ ClaimRunDecided
    /\ state.claim_decision.decision = "approved"
    /\ ~settings.enable_compliance_checks
    /\ config.compliance_checks_required
    /\ visited = <<"claims_processing", "notification">>
    /\ pc = "returned"

\* C28: every WorkflowResult returned by validate_pay_record or
\* process_claim has status completed or failed, never in_progress, and
\* its error_message is set exactly when its status is failed.
C28_ResultStatusAndErrorMessage ==
    pc = "returned" =>
        /\ result.status \in {"completed", "failed"}
        /\ result.error_message # "None" <=> result.status = "failed"

C28_Witness ==
    /\ pc = "returned"
    /\ result.status = "failed"
    /\ result.error_message = "Pay validation failed"
    /\ visited = <<"pay_validation", "notification">>

\* C29: every ClaimDecision of the claims_processing node has
\* approved_amount equal to the claim's amount when it approves and 0 when
\* it rejects or puts under review, whether it comes from the rule
\* rejection, the auto-approval, the advisory call or its failure.
C29_ApprovedAmountMatchesDecision ==
    ClaimRunDecided =>
        /\ state.claim_decision.decision \in {"approved", "rejected", "under_review"}
        /\ state.claim_decision.approved_amount =
               (IF state.claim_decision.decision = "approved" THEN arg.amount ELSE 0)

C29_Witness ==
    /\ ClaimRunDecided
    /\ AdvisoryClaimRun
    /\ state.current_agent = "claims_processing"
    /\ state.claim_decision.decision = "approved"
    /\ state.claim_decision.approved_amount = arg.amount
    /\ arg.amount > settings.auto_approve_claim_threshold
    /\ settings.auto_approve_claim_threshold > 0

\* C30: in a pay-validation run the compliance node is only reached with a
\* pay record whose gross_pay is > 0, so the tax-withholding check's
\* deductions / gross_pay never divides by zero.
C30_ComplianceNeverDividesByZero ==
    kind = "pay_validation" =>
        /\ (pc = "compliance" \/ VisitedCompliance) =>
              /\ arg.gross_pay > 0
              /\ ~DividesByZero(arg)
        /\ exc # "division by zero"

C30_Witness ==
    /\ kind = "pay_validation"
    /\ VisitedCompliance
    /\ arg.deductions > 0
    /\ arg.gross_pay > 0
    /\ state.current_agent = "compliance"
    /\ state.metadata.compliance.checks[Len(state.metadata.compliance.checks) - 1].check_name
           = "tax_withholding_check"

\* C23: provided every advisory call eventually returns or raises, every
\* invocation of validate_pay_record or process_claim eventually reaches
\* the end of its graph and hands a WorkflowResult to the caller.  Every
\* pending step being taken eventually and no run being longer than three
\* nodes, this says that an invocation with no step left has handed its
\* WorkflowResult to the caller.
C23_EveryInvocationReturns ==
    (kind # "none" /\ ~ENABLED Next) => (pc = "returned" /\ ~IsNone(result))

\* A ValidationResult without its timestamp.
Verdict(res) ==
    [check_name |-> res.check_name, status |-> res.status, message |-> res.message]

RECURSIVE Alone(_, _, _, _)
Alone(inv, cfg, stg, responses) ==
    IF inv.pc \in Nodes
    THEN LET outcome == IF responses[inv.pc] = NodeFailure THEN NodeFailure
                        ELSE IF CallsLLM(inv.pc, inv.state, stg)
                             THEN responses[inv.pc]
                             ELSE NoResponse
             out == IF outcome = NodeFailure THEN Raises(NodeFailure, inv.state)
                    ELSE NodeOutput(inv.pc, inv.state, stg, outcome)
             next == EdgeOut(inv.pc, out, cfg)
         IN  Alone(AfterNode(inv, inv.state, out, next, outcome), cfg, stg, responses)
    ELSE IF inv.pc \in {"end", "except"} THEN AfterReturn(inv)
    ELSE inv

Finished(inv) == inv.pc \in {"returned", "raised"}

\* C21: of two invocations on one CrewPayWorkflow whose steps interleave at
\* the advisory-call suspension points, each ends as it does when run alone
\* with the same input and the same advisory responses: the same
\* WorkflowResult (or the same exception to its caller), the same sequence
\* of nodes, the same final state.
C21_InterleavedAsAlone ==
    \A i \in DOMAIN invocations :
        Finished(invocations[i]) =>
            LET alone == Alone(Started(invocations[i].kind, invocations[i].arg),
                               config, settings, invocations[i].responses)
            IN  /\ invocations[i].result = alone.result
                /\ invocations[i].visited = alone.visited
                /\ invocations[i].state = alone.state
                /\ invocations[i].exc = alone.exc
                /\ invocations[i].pc = alone.pc

C21_Witness ==
    /\ DOMAIN invocations = InvocationIds
    /\ \A i \in InvocationIds :
          /\ invocations[i].pc = "returned"
          /\ invocations[i].overlapped
          /\ invocations[i].result.status = "completed"
          /\ Len(invocations[i].visited) = 3
    /\ invocations[1].kind = "claim_processing"
    /\ invocations[2].kind = "pay_validation"

====
